---- MODULE Spec2Model ----
(***************************************************************************)
(* Model of src/src/message.ts: Message.parse (template decoder) and       *)
(* Message.format (payload encoder).                                       *)
(*                                                                         *)
(* A JavaScript string is a sequence of one-character strings, so that     *)
(* slicing, searching and splitting are computed as the code computes      *)
(* them.  The curly quotes are written LDQ, RDQ, LSQ, RSQ, the backtick BTK.  *)
(* A JavaScript object is a function from keys (strings) to values; an     *)
(* ordered list of [key, value] entries is a sequence of pairs.            *)
(***************************************************************************)
EXTENDS Integers, Sequences, FiniteSets, TLC

VARIABLES payload, template, result, brief, pc, iters,
          message, source, now, entropy, messages, files, hasMessages, hasFiles,
          fbrief, pcF

vars == <<payload, template, result, brief, pc, iters,
          message, source, now, entropy, messages, files, hasMessages, hasFiles,
          fbrief, pcF>>

parseVars == <<payload, template, result, brief, pc, iters>>

formatVars == <<message, source, now, entropy, messages, files, hasMessages,
                hasFiles, fbrief, pcF>>

(***************************************************************************)
(* Bounds of the model.                                                    *)
(***************************************************************************)
MaxSegs == 2

MaxAtt == 2

MaxElems == 3

MaxButtons == 9

MaxMixed == 6

MaxTicks == 1

(***************************************************************************)
(* JavaScript values and string primitives.                                *)
(***************************************************************************)
Undefined == <<"UNDEFINED">>

EmptyObj == [k \in {} |-> <<>>]

MinOf(S) == CHOOSE i \in S : \A j \in S : i <= j

StartsWith(s, p) == Len(p) <= Len(s) /\ SubSeq(s, 1, Len(p)) = p

\* String.prototype.indexOf, 1-based; 0 when not found.
IndexOf(s, m) ==
    LET S == {i \in 1..(Len(s) - Len(m) + 1) : SubSeq(s, i, i + Len(m) - 1) = m}
    IN IF S = {} THEN 0 ELSE MinOf(S)

\* First position >= from holding character c; 0 when there is none.
FirstIndex(s, c, from) ==
    LET S == {j \in from..Len(s) : s[j] = c}
    IN IF S = {} THEN 0 ELSE MinOf(S)

RECURSIVE Split(_, _)
\* String.prototype.split on a one-character separator.
Split(s, c) ==
    LET i == FirstIndex(s, c, 1)
    IN IF i = 0 THEN <<s>>
       ELSE <<SubSeq(s, 1, i - 1)>> \o Split(SubSeq(s, i + 1, Len(s)), c)

RECURSIVE Join(_, _)
\* Array.prototype.join of strings with separator string sep.
Join(parts, sep) ==
    IF Len(parts) = 0 THEN <<>>
    ELSE IF Len(parts) = 1 THEN parts[1]
    ELSE parts[1] \o sep \o Join(Tail(parts), sep)

\* String.prototype.replace(pat, rep) with a string pattern: first occurrence.
ReplaceFirst(s, pat, rep) ==
    LET i == IndexOf(s, pat)
    IN IF i = 0 THEN s
       ELSE SubSeq(s, 1, i - 1) \o rep \o SubSeq(s, i + Len(pat), Len(s))

UpperChars == {"A","B","C","D","E","F","G","H","I","J","K","L","M",
               "N","O","P","Q","R","S","T","U","V","W","X","Y","Z"}

LowerChars == {"a","b","c","d","e","f","g","h","i","j","k","l","m",
               "n","o","p","q","r","s","t","u","v","w","x","y","z"}

DigitChars == {"0","1","2","3","4","5","6","7","8","9"}

LowerOf ==
    [c \in UpperChars |->
        CASE c = "A" -> "a" [] c = "B" -> "b" [] c = "C" -> "c" [] c = "D" -> "d"
          [] c = "E" -> "e" [] c = "F" -> "f" [] c = "G" -> "g" [] c = "H" -> "h"
          [] c = "I" -> "i" [] c = "J" -> "j" [] c = "K" -> "k" [] c = "L" -> "l"
          [] c = "M" -> "m" [] c = "N" -> "n" [] c = "O" -> "o" [] c = "P" -> "p"
          [] c = "Q" -> "q" [] c = "R" -> "r" [] c = "S" -> "s" [] c = "T" -> "t"
          [] c = "U" -> "u" [] c = "V" -> "v" [] c = "W" -> "w" [] c = "X" -> "x"
          [] c = "Y" -> "y" [] OTHER -> "z"]

ToLowerCase(s) == [i \in 1..Len(s) |-> IF s[i] \in UpperChars THEN LowerOf[s[i]] ELSE s[i]]

\* The closing character of each alternative of the scan regex.
Closer(c) ==
    CASE c = "\"" -> "\""
      [] c = "'" -> "'"
      [] c = "BTK" -> "BTK"
      [] c = "LDQ" -> "RDQ"
      [] c = "LSQ" -> "RSQ"
      [] OTHER -> ">"

QuoteOpeners == {"\"", "'", "BTK", "LDQ", "LSQ"}

\* End position of the regex match that starts at position i; 0 when no
\* alternative matches there.  Every alternative is lazy: it ends at the first
\* closing character; the tag alternative needs one character that is not '>'.
MatchEndAt(s, i) ==
    IF s[i] \in QuoteOpeners THEN FirstIndex(s, Closer(s[i]), i + 1)
    ELSE IF s[i] = "<"
         THEN IF i + 1 <= Len(s) /\ s[i + 1] # ">"
              THEN FirstIndex(s, ">", i + 2) ELSE 0
         ELSE 0

\* template.match(regex): the leftmost match, <<>> when there is none.
RegexMatch(s) ==
    LET S == {i \in 1..Len(s) : MatchEndAt(s, i) # 0}
    IN IF S = {} THEN <<>>
       ELSE LET i == MinOf(S) IN SubSeq(s, i, MatchEndAt(s, i))

\* trimQuote of @/utils: one layer of surrounding quotes is stripped.
trimQuote(str) ==
    IF Len(str) >= 1 /\ str[1] \in QuoteOpeners /\ str[Len(str)] = Closer(str[1])
    THEN SubSeq(str, 2, Len(str) - 1)
    ELSE str

RECURSIVE FromEntries(_)
\* Object.fromEntries: a later entry with the same key wins.
FromEntries(entries) ==
    IF Len(entries) = 0 THEN EmptyObj
    ELSE LET n == Len(entries)
         IN (entries[n][1] :> entries[n][2]) @@ FromEntries(SubSeq(entries, 1, n - 1))

\* Property read: undefined when the key is absent.
Get(obj, key) == IF key \in DOMAIN obj THEN obj[key] ELSE Undefined

\* a || b on strings and undefined.
OrElse(a, b) == IF a # Undefined /\ a # <<>> THEN a ELSE b

(***************************************************************************)
(* String literals of the source.                                          *)
(***************************************************************************)
S_type == <<"t","y","p","e">>

S_text == <<"t","e","x","t">>

S_data == <<"d","a","t","a">>

S_face == <<"f","a","c","e">>

S_at == <<"a","t">>

S_id == <<"i","d">>

S_src == <<"s","r","c">>

S_url == <<"u","r","l">>

S_faceType == <<"f","a","c","e","T","y","p","e">>

S_faceId == <<"f","a","c","e","I","d">>

S_everyone == <<"e","v","e","r","y","o","n","e">>

S_content_type == <<"c","o","n","t","e","n","t","_","t","y","p","e">>

\* /^[a-z]+:[0-9]+$/.test(type)
IsShorthand(type) ==
    LET i == FirstIndex(type, ":", 1)
    IN /\ i >= 2
       /\ i < Len(type)
       /\ \A j \in 1..(i - 1) : type[j] \in LowerChars
       /\ \A j \in (i + 1)..Len(type) : type[j] \in DigitChars

\* payload.mentions.find(u => u.id === id) || {} , as its ordered entries.
FindMention(mentions, id) ==
    LET S == {i \in 1..Len(mentions) : Get(FromEntries(mentions[i]), S_id) = id}
    IN IF S = {} THEN <<>> ELSE mentions[MinOf(S)]

\* `${key}=${value}` for each entry.
EntryTokens(entries) == [i \in 1..Len(entries) |-> entries[i][1] \o <<"=">> \o entries[i][2]]

\* attr.split('=') then [key.toLowerCase(), trimQuote(values.join('='))].
AttrEntry(attr) ==
    LET kv == Split(attr, "=")
    IN <<ToLowerCase(kv[1]), trimQuote(Join(Tail(kv), <<"=">>))>>

\* Tag normalization of one matched tag: the canonical type, the attribute
\* tokens, and whether evaluation raises a TypeError before the element is
\* pushed (payload.mentions undefined; attrs = [['all', true]] has no split).
ResolveTag(match, p) ==
    LET parts == Split(SubSeq(match, 2, Len(match) - 1), ",")
        type == parts[1]
        attrs == Tail(parts)
    IN IF StartsWith(type, S_faceType)
       THEN [raised |-> FALSE, type |-> S_face,
             attrs |-> [i \in 1..Len(attrs) |-> ReplaceFirst(attrs[i], S_faceId, S_id)]]
       ELSE IF StartsWith(type, <<"@">>)
       THEN IF StartsWith(type, <<"@","!">>)
            THEN IF "mentions" \notin DOMAIN p
                 THEN [raised |-> TRUE, type |-> S_at, attrs |-> <<>>]
                 ELSE [raised |-> FALSE, type |-> S_at,
                       attrs |-> EntryTokens(FindMention(p["mentions"],
                                                         SubSeq(type, 3, Len(type))))]
            ELSE IF type = <<"@">> \o S_everyone
                 THEN [raised |-> TRUE, type |-> S_at, attrs |-> <<>>]
                 ELSE [raised |-> FALSE, type |-> type, attrs |-> attrs]
       ELSE IF IsShorthand(type)
       THEN [raised |-> FALSE, type |-> S_face,
             attrs |-> <<S_id \o <<"=">> \o Split(type, ":")[2]>>]
       ELSE [raised |-> FALSE, type |-> type, attrs |-> attrs]

\* { type, ...Object.fromEntries(attrs.map(...)) }: a spread key overrides type.
TagElem(tag) ==
    FromEntries([i \in 1..Len(tag.attrs) |-> AttrEntry(tag.attrs[i])]) @@ (S_type :> tag.type)

\* { type: 'text', text }
TextElem(text) == (S_type :> S_text) @@ (S_text :> text)

\* { type: "text", data: { text: match } }
QuotedElem(match) == (S_type :> S_text) @@ (S_data :> (S_text :> match))

\* The element of one attachment record, given as its ordered entries.
AttachElem(attachment) ==
    LET rec == FromEntries(attachment)
        data == SelectSeq(attachment, LAMBDA e : e[1] # S_content_type)
        d == FromEntries(data)
        type == Split(rec[S_content_type], "/")[1]
    IN (S_src :> OrElse(Get(d, S_src), Get(d, S_url)))
       @@ (S_url :> OrElse(Get(d, S_url), Get(d, S_src)))
       @@ d @@ (S_type :> type)

\* `<$${type},${Object.entries(data).map(...).join(',')}>`
AttachBrief(attachment) ==
    LET rec == FromEntries(attachment)
        data == SelectSeq(attachment, LAMBDA e : e[1] # S_content_type)
        type == Split(rec[S_content_type], "/")[1]
    IN <<"<", "$">> \o type \o <<",">> \o Join(EntryTokens(data), <<",">>) \o <<">">>

RECURSIVE AttachAll(_)
AttachAll(atts) ==
    IF Len(atts) = 0 THEN <<>> ELSE <<AttachElem(atts[1])>> \o AttachAll(Tail(atts))

RECURSIVE AttachBriefAll(_)
AttachBriefAll(atts) ==
    IF Len(atts) = 0 THEN <<>> ELSE AttachBrief(atts[1]) \o AttachBriefAll(Tail(atts))

(***************************************************************************)
(* Message.parse: inputs.                                                  *)
(***************************************************************************)
Segments ==
    { <<"h","i">>,
      <<"\"","q","\"">>,
      <<"LDQ","q","RDQ">>,
      <<"<">> \o S_faceType \o <<",">> \o S_faceId \o <<"=","3",">">>,
      <<"<">> \o S_faceType \o <<",","k","=">> \o S_faceId \o <<">">>,
      <<"<","@","!","4","2",">">>,
      <<"<","@","!","9",">">>,
      <<"<","@">> \o S_everyone \o <<">">>,
      <<"<","@","m","e",">">>,
      <<"<","s","t","i","c","k","e","r",":","7",">">>,
      <<"<","i","m","g",",","S","r","c","=","\"","u","=","1","\"",">">>,
      <<"<">>,
      <<">">>,
      <<"\"">> }

RECURSIVE Templates(_)
Templates(n) ==
    IF n = 0 THEN {<<>>}
    ELSE LET T == Templates(n - 1) IN T \cup {t \o s : t \in T, s \in Segments}

Mention42 == << <<S_id, <<"4","2">>>>, <<<<"u","s","e","r","_","n","a","m","e">>, <<"X">>>> >>

MentionLists == { <<>>, <<Mention42>> }

AttachmentRecords ==
    { << <<S_content_type, <<"i","m","a","g","e","/","p","n","g">>>>, <<S_url, <<"u">>>> >>,
      << <<S_content_type, <<"v","i","d","e","o","/","m","p","4">>>>, <<S_src, <<"s">>>> >>,
      << <<S_content_type, <<"a","u","d","i","o","/","m","p","3">>>>, <<S_src, <<"s">>>>,
         <<S_url, <<"u">>>>, <<<<"s","i","z","e">>, <<"9">>>> >>,
      << <<S_content_type, <<"i","m","a","g","e","/","p","n","g">>>>, <<S_url, <<"u">>>>,
         <<S_type, <<"t">>>> >> }

RECURSIVE AttachmentLists(_)
AttachmentLists(n) ==
    IF n = 0 THEN {<<>>}
    ELSE LET L == AttachmentLists(n - 1)
         IN L \cup {Append(l, a) : l \in L, a \in AttachmentRecords}

\* Payloads: every template with the mention list absent, empty or present;
\* a few templates with every attachment list.
Payloads ==
    {[content |-> c] : c \in Templates(MaxSegs)}
    \cup {[content |-> c, mentions |-> m] : c \in Templates(MaxSegs), m \in MentionLists}
    \cup {[content |-> c, attachments |-> a, mentions |-> m] :
            c \in Templates(1), a \in AttachmentLists(MaxAtt), m \in {<<Mention42>>}}

(***************************************************************************)
(* Message.parse: the scan loop, one action per iteration.                 *)
(***************************************************************************)
\* Mutant of Advance: the slice forgets the length of the match.
AdvanceKeepsMatch(t, index, match) == SubSeq(t, index, Len(t))

\* template.slice(index + match.length)
Advance(t, index, match) == SubSeq(t, index + Len(match), Len(t))

\* brief += `<${type}:${attrs.join(',')}>`
TagBrief(tag) == <<"<">> \o tag.type \o <<":">> \o Join(tag.attrs, <<",">>) \o <<">">>

\* An iteration of the while loop that finds a match.
Scan ==
    /\ pc = "scan"
    /\ Len(template) > 0
    /\ RegexMatch(template) # <<>>
    /\ LET match == RegexMatch(template)
           index == IndexOf(template, match)
           prevText == SubSeq(template, 1, index - 1)
           r1 == IF Len(prevText) > 0 THEN Append(result, TextElem(prevText)) ELSE result
           b1 == brief \o prevText
           tag == ResolveTag(match, payload)
       IN /\ template' = Advance(template, index, match)
          /\ iters' = iters + 1
          /\ IF match[1] = "<"
             THEN IF tag.raised
                  THEN result' = r1 /\ brief' = b1 /\ pc' = "raised"
                  ELSE /\ result' = Append(r1, TagElem(tag))
                       /\ brief' = b1 \o TagBrief(tag)
                       /\ pc' = "scan"
             ELSE /\ result' = Append(r1, QuotedElem(match))
                  /\ brief' = b1 \o match
                  /\ pc' = "scan"
    /\ UNCHANGED <<payload, formatVars>>

\* The loop ends (empty template, or no match) and the remainder is pushed.
ScanExit ==
    /\ pc = "scan"
    /\ (Len(template) = 0 \/ RegexMatch(template) = <<>>)
    /\ iters' = IF Len(template) > 0 THEN iters + 1 ELSE iters
    /\ result' = IF Len(template) > 0 THEN Append(result, TextElem(template)) ELSE result
    /\ brief' = brief \o template
    /\ pc' = "attach"
    /\ UNCHANGED <<payload, template, formatVars>>

\* The attachment loop, the two deletes and the return.
Attach ==
    /\ pc = "attach"
    /\ LET atts == IF "attachments" \in DOMAIN payload THEN payload["attachments"] ELSE <<>>
       IN /\ result' = result \o AttachAll(atts)
          /\ brief' = brief \o AttachBriefAll(atts)
    /\ payload' = [k \in DOMAIN payload \ {"attachments", "mentions"} |-> payload[k]]
    /\ pc' = "done"
    /\ UNCHANGED <<template, iters, formatVars>>

FormatIdle ==
    /\ message = [array |-> TRUE, items |-> <<>>]
    /\ source = EmptyObj
    /\ now = 0
    /\ entropy = <<>>
    /\ messages = EmptyObj
    /\ files = EmptyObj
    /\ hasMessages = FALSE
    /\ hasFiles = FALSE
    /\ fbrief = <<>>
    /\ pcF = "idle"

Init ==
    /\ payload \in Payloads
    /\ template = payload["content"]
    /\ result = <<>>
    /\ brief = <<>>
    /\ pc = "scan"
    /\ iters = 0
    /\ FormatIdle

Next == Scan \/ ScanExit \/ Attach

Spec == Init /\ [][Next]_vars

(***************************************************************************)
(* Message.format: elements and inputs.                                    *)
(***************************************************************************)
S_reply == <<"r","e","p","l","y">>

S_link == <<"l","i","n","k">>

S_image == <<"i","m","a","g","e">>

S_audio == <<"a","u","d","i","o">>

S_video == <<"v","i","d","e","o">>

S_markdown == <<"m","a","r","k","d","o","w","n">>

S_button == <<"b","u","t","t","o","n">>

S_message_id == <<"m","e","s","s","a","g","e","_","i","d">>

S_channel_id == <<"c","h","a","n","n","e","l","_","i","d">>

S_file == <<"f","i","l","e">>

S_content == <<"c","o","n","t","e","n","t">>

\* A member of Sendable: a bare string or an element object (typeof elem).
Str(s) == [kind |-> "string", value |-> s]

Obj(o) == [kind |-> "object", value |-> o]

ReplyE(id) == (S_type :> S_reply) @@ (S_message_id :> id)

AtE(id) == (S_type :> S_at) @@ (S_id :> id)

AtAllE == (S_type :> S_at)

LinkE(ch) == (S_type :> S_link) @@ (S_channel_id :> ch)

FaceE(id) == (S_type :> S_face) @@ (S_id :> id)

MediaE(type, file) == (S_type :> type) @@ (S_file :> file)

MarkdownE(c) == (S_type :> S_markdown) @@ (S_content :> c)

ButtonE(d) == (S_type :> S_button) @@ (S_data :> d)

UnknownE == (S_type :> <<"f","o","o">>)

ButtonItems == { Obj(ButtonE(<<"b","1">>)), Obj(ButtonE(<<"b","2">>)) }

MixedItems == ButtonItems \cup { Str(<<"y","o">>) }

Items ==
    { Str(<<"y","o">>), Obj(TextElem(<<"h","i">>)), Obj(AtE(<<"7">>)), Obj(AtAllE),
      Obj(LinkE(<<"c">>)), Obj(FaceE(<<"3">>)), Obj(MediaE(S_image, <<"f">>)),
      Obj(MediaE(S_audio, <<"g">>)), Obj(MediaE(S_video, <<"h">>)),
      Obj(MarkdownE(<<"m">>)), Obj(ButtonE(<<"b","1">>)),
      Obj(ReplyE(<<"A">>)), Obj(ReplyE(<<"B">>)), Obj(UnknownE) }

RECURSIVE SeqsUpTo(_, _)
SeqsUpTo(S, n) ==
    IF n = 0 THEN {<<>>}
    ELSE LET L == SeqsUpTo(S, n - 1) IN L \cup {Append(l, x) : l \in L, x \in S}

\* format's first argument: one item, or an array of items.
Messages ==
    {[array |-> FALSE, item |-> x] : x \in Items}
    \cup {[array |-> TRUE, items |-> l] : l \in SeqsUpTo(Items, MaxElems)}
    \cup {[array |-> TRUE, items |-> l] : l \in SeqsUpTo(ButtonItems, MaxButtons)}
    \cup {[array |-> TRUE, items |-> l] : l \in SeqsUpTo(MixedItems, MaxMixed)}

\* format's second argument (Quotable); {} is the default.
Sources == { EmptyObj, [message_id |-> <<"Q">>, event_id |-> <<"E">>] }

(***************************************************************************)
(* Message.format: clock, random source, routing.                          *)
(***************************************************************************)
SeqMin == 1

SeqMax == 1000000

RowWidth == 4

\* Mutant of randomInt: the upper end is taken as inclusive.
randomIntInclusive(x, min, max) == (x % (max - min + 1)) + min

\* crypto.randomInt(min, max) on the raw random integer x it draws:
\* (x % range) + min with range = max - min, so max is exclusive.
randomInt(x, min, max) == (x % (max - min)) + min

\* The raw draws the model follows: those that land on both ends of the range.
RawSamples == {0, 1, SeqMax - SeqMin - 1, SeqMax - SeqMin}

\* Mutant of DateNowSeconds: the seconds are rounded up.
DateNowSecondsCeil(ms) == (ms + 999) \div 1000

\* Number((Date.now() / 1000).toFixed(0)): milliseconds to the nearest second.
DateNowSeconds(ms) == (ms + 500) \div 1000

\* Date.now() when format is called, in milliseconds: just below a half second.
ClockStarts == {1499}

ClockEnd == MinOf(ClockStarts) + MaxTicks

\* ['image', 'video', 'audio'].indexOf(type) + 1
getType(type) ==
    LET kinds == <<S_image, S_video, S_audio>>
        S == {i \in 1..Len(kinds) : kinds[i] = type}
    IN IF S = {} THEN 0 ELSE MinOf(S)

\* Template-literal interpolation of a string or undefined.
ToStr(v) == IF v = Undefined THEN <<"u","n","d","e","f","i","n","e","d">> ELSE v

\* if (!Array.isArray(message)) message = [message]
Normalize(m) == IF m.array THEN m.items ELSE <<m.item>>

\* Mutant of ElemOf: a bare string is not turned into a text element.
ElemOfNoString(item) == IF item.kind = "string" THEN EmptyObj ELSE item.value

\* if (typeof elem === 'string') elem = { type: 'text', text: elem }
ElemOf(item) == IF item.kind = "string" THEN TextElem(item.value) ELSE item.value

\* One pass of the switch on elem.type over the accumulated state.
RouteElem(acc, elem, src) ==
    LET type == Get(elem, S_type)
    IN IF type = S_reply
       THEN [acc EXCEPT !.messages.msg_id = Get(elem, S_message_id),
                        !.files.msg_id = Get(elem, S_message_id),
                        !.brief = @ \o <<"<","$">> \o S_reply \o <<",">> \o S_message_id
                                    \o <<"=">> \o ToStr(Get(elem, S_message_id)) \o <<">">>]
       ELSE IF type = S_at
       THEN [acc EXCEPT !.messages.content =
                            @ \o <<"<","@">> \o OrElse(Get(elem, S_id), S_everyone) \o <<">">>,
                        !.brief = @ \o <<"<","$">> \o S_at \o <<",","u","s","e","r","=">>
                                    \o OrElse(Get(elem, S_id), S_everyone) \o <<">">>]
       ELSE IF type = S_link
       THEN [acc EXCEPT !.messages.content =
                            @ \o <<"<","#">> \o ToStr(Get(elem, S_channel_id)) \o <<">">>,
                        !.brief = @ \o <<"<","$">> \o S_link
                                    \o <<",","c","h","a","n","n","e","l","=">>
                                    \o ToStr(Get(elem, S_channel_id)) \o <<">">>]
       ELSE IF type = S_text
       THEN [acc EXCEPT !.messages.content = @ \o ToStr(Get(elem, S_text)),
                        !.hasMessages = TRUE,
                        !.brief = @ \o ToStr(Get(elem, S_text))]
       ELSE IF type = S_face
       THEN [acc EXCEPT !.messages.content =
                            @ \o <<"<","e","m","o","j","i",":">> \o ToStr(Get(elem, S_id))
                              \o <<">">>,
                        !.hasMessages = TRUE,
                        !.brief = @ \o <<"<","$">> \o S_face \o <<",","i","d","=">>
                                    \o ToStr(Get(elem, S_id)) \o <<">">>]
       ELSE IF type \in {S_image, S_audio, S_video}
       THEN [acc EXCEPT !.files = [file_type |-> getType(type),
                                   content |-> S_file,
                                   url |-> Get(elem, S_file),
                                   event_id |-> Get(src, "event_id"),
                                   msg_id |-> Get(src, "message_id"),
                                   srv_send_msg |-> TRUE] @@ @,
                        !.hasFiles = TRUE,
                        !.brief = @ \o <<"<">> \o type \o <<",","f","i","l","e","=">>
                                    \o ToStr(Get(elem, S_file)) \o <<">">>]
       ELSE IF type = S_markdown
       THEN [acc EXCEPT !.messages = [markdown |-> [content |-> Get(elem, S_content)],
                                      msg_type |-> 2] @@ @,
                        !.hasMessages = TRUE,
                        !.brief = @ \o <<"<","#">> \o S_markdown \o <<",">> \o S_content
                                    \o <<"=">> \o ToStr(Get(elem, S_content)) \o <<">">>]
       ELSE IF type = S_button
       THEN [acc EXCEPT !.buttons = Append(@, Get(elem, S_data)),
                        !.brief = @ \o <<"<","$">> \o S_button \o <<",">> \o S_data
                                    \o <<"=","\"">> \o ToStr(Get(elem, S_data))
                                    \o <<"\"",">">>]
       ELSE acc

RECURSIVE RouteAll(_, _, _)
\* for (let elem of message) { ... }
RouteAll(acc, items, src) ==
    IF Len(items) = 0 THEN acc
    ELSE RouteAll(RouteElem(acc, ElemOf(items[1]), src), Tail(items), src)

RECURSIVE RowsFromShort(_, _)
\* Mutant of RowsFrom: the loop stops one button early.
RowsFromShort(buttons, i) ==
    IF i + 1 < Len(buttons)
    THEN <<SubSeq(buttons, i + 1, IF i + RowWidth < Len(buttons)
                                  THEN i + RowWidth ELSE Len(buttons))>>
         \o RowsFromShort(buttons, i + RowWidth)
    ELSE <<>>

RECURSIVE RowsFrom(_, _)
\* for (let i = 0; i < buttons.length; i += 4) rows.push(buttons.slice(i, i + 4))
RowsFrom(buttons, i) ==
    IF i < Len(buttons)
    THEN <<SubSeq(buttons, i + 1, IF i + RowWidth < Len(buttons)
                                  THEN i + RowWidth ELSE Len(buttons))>>
         \o RowsFrom(buttons, i + RowWidth)
    ELSE <<>>

\* messages.keyboard = { content: { rows: rows.map(row => ({ buttons: row })) } }
Keyboard(buttons) ==
    LET rows == RowsFrom(buttons, 0)
    IN [content |-> [rows |-> [i \in 1..Len(rows) |-> [buttons |-> rows[i]]]]]

\* The clock advances by a millisecond.
Tick ==
    /\ now < ClockEnd
    /\ now' = now + 1
    /\ UNCHANGED <<parseVars, message, source, entropy, messages, files, hasMessages,
                   hasFiles, fbrief, pcF>>

\* const messages = { msg_type, content, msg_id, msg_seq, timestamp }
SeedMessages ==
    /\ pcF = "seedMessages"
    /\ messages' = [msg_type |-> 0,
                    content |-> <<>>,
                    msg_id |-> Get(source, "message_id"),
                    msg_seq |-> randomInt(Head(entropy), SeqMin, SeqMax),
                    timestamp |-> DateNowSeconds(now)]
    /\ entropy' = Tail(entropy)
    /\ pcF' = "seedFiles"
    /\ UNCHANGED <<parseVars, message, source, now, files, hasMessages, hasFiles, fbrief>>

\* const files = { msg_id, msg_seq, timestamp }
SeedFiles ==
    /\ pcF = "seedFiles"
    /\ files' = [msg_id |-> Get(source, "message_id"),
                 msg_seq |-> randomInt(Head(entropy), SeqMin, SeqMax),
                 timestamp |-> DateNowSeconds(now)]
    /\ entropy' = Tail(entropy)
    /\ pcF' = "route"
    /\ UNCHANGED <<parseVars, message, source, now, messages, hasMessages, hasFiles, fbrief>>

\* The routing loop, the keyboard and the return.
Route ==
    /\ pcF = "route"
    /\ LET acc == RouteAll([messages |-> messages, files |-> files,
                            hasMessages |-> FALSE, hasFiles |-> FALSE,
                            buttons |-> <<>>, brief |-> <<>>],
                           Normalize(message), source)
       IN /\ messages' = IF Len(acc.buttons) > 0
                         THEN [keyboard |-> Keyboard(acc.buttons)] @@ acc.messages
                         ELSE acc.messages
          /\ files' = acc.files
          /\ hasMessages' = acc.hasMessages
          /\ hasFiles' = acc.hasFiles
          /\ fbrief' = acc.brief
    /\ pcF' = "done"
    /\ UNCHANGED <<parseVars, message, source, now, entropy>>

ParseIdle ==
    /\ payload = [content |-> <<>>]
    /\ template = <<>>
    /\ result = <<>>
    /\ brief = <<>>
    /\ pc = "idle"
    /\ iters = 0

InitFormat ==
    /\ ParseIdle
    /\ \/ /\ message \in Messages
          /\ source \in Sources
          /\ now = ClockEnd
          /\ entropy = <<0, 0>>
       \/ /\ message \in {m \in Messages : m.array /\ Len(m.items) <= 1}
          /\ source \in Sources
          /\ now \in ClockStarts
          /\ entropy \in RawSamples \X RawSamples
    /\ messages = EmptyObj
    /\ files = EmptyObj
    /\ hasMessages = FALSE
    /\ hasFiles = FALSE
    /\ fbrief = <<>>
    /\ pcF = "seedMessages"

NextFormat == Tick \/ SeedMessages \/ SeedFiles \/ Route

SpecFormat == InitFormat /\ [][NextFormat]_vars

(***************************************************************************)
(* Properties of Message.parse (specification Spec).                       *)
(***************************************************************************)
Matched == Len(template) > 0 /\ RegexMatch(template) # <<>>

TagMatched == Matched /\ RegexMatch(template)[1] = "<"

Last(seq) == seq[Len(seq)]

RECURSIVE Flatten(_)
Flatten(seqs) == IF Len(seqs) = 0 THEN <<>> ELSE seqs[1] \o Flatten(Tail(seqs))

\* C2: Message.parse never raises, whatever the template and whether the
\* mention list is present, empty or absent.
C2_NeverRaises == pc # "raised"

JsTrue == <<"TRUE">>

S_all == <<"a","l","l">>

\* The attribute entry the rule table gives for one token: split on the first
\* '=', key lower-cased, with the key faceId renamed under rule 1.
ClaimEntry(attr, renameFaceId) ==
    LET kv == Split(attr, "=")
        value == trimQuote(Join(Tail(kv), <<"=">>))
    IN IF renameFaceId /\ kv[1] = S_faceId THEN <<S_id, value>>
       ELSE <<ToLowerCase(kv[1]), value>>

\* The element the ordered rule table of the claim gives for a matched tag.
ClaimElem(match, p) ==
    LET parts == Split(SubSeq(match, 2, Len(match) - 1), ",")
        type == parts[1]
        attrs == Tail(parts)
        mentions == IF "mentions" \in DOMAIN p THEN p["mentions"] ELSE <<>>
    IN IF StartsWith(type, S_faceType)
       THEN FromEntries([i \in 1..Len(attrs) |-> ClaimEntry(attrs[i], TRUE)])
            @@ (S_type :> S_face)
       ELSE IF StartsWith(type, <<"@","!">>)
       THEN FromEntries(FindMention(mentions, SubSeq(type, 3, Len(type))))
            @@ (S_type :> S_at)
       ELSE IF type = <<"@">> \o S_everyone
       THEN (S_type :> S_at) @@ (S_all :> JsTrue)
       ELSE IF IsShorthand(type)
       THEN (S_type :> S_face) @@ (S_id :> Split(type, ":")[2])
       ELSE FromEntries([i \in 1..Len(attrs) |-> ClaimEntry(attrs[i], FALSE)])
            @@ (S_type :> type)

\* C3: for every angle-bracket tag the scan loop meets in a payload that has
\* a mention list, the element pushed is the one the ordered rule table gives
\* (faceType, @!id, @everyone, shorthand, pass-through), and the loop goes on.
C3_RuleTable ==
    [][(TagMatched /\ "mentions" \in DOMAIN payload) =>
         /\ pc' = "scan"
         /\ Len(result') > 0
         /\ Last(result') = ClaimElem(RegexMatch(template), payload)]_vars

\* The template-derived elements of a result: those of type text.
TextElems == SelectSeq(result, LAMBDA e : Get(e, S_type) = S_text)

\* C4: once a template without any '<' is decoded, every literal segment
\* (preceding text, quoted run, remainder) is a Text element with a text
\* field, the text fields concatenate to the template, and brief starts with
\* the template.
C4_LiteralText ==
    (pc = "done" /\ \A i \in 1..Len(payload["content"]) : payload["content"][i] # "<")
    => /\ \A i \in 1..Len(TextElems) : S_text \in DOMAIN TextElems[i]
       /\ Flatten([i \in 1..Len(TextElems) |-> TextElems[i][S_text]]) = payload["content"]
       /\ StartsWith(brief, payload["content"])

\* C9: the attachment step appends exactly one element per attachment record,
\* in order, after the template-derived elements; each has the MIME primary
\* type as its type and both src and url, equal when the record carries one
\* of them; afterwards the payload has neither attachments nor mentions.
C9_Attachments ==
    [][(pc = "attach" /\ "attachments" \in DOMAIN payload) =>
         LET atts == payload["attachments"]
             n == Len(atts)
             k == Len(result)
         IN /\ Len(result') = k + n
            /\ SubSeq(result', 1, k) = result
            /\ \A i \in 1..n :
                 LET rec == FromEntries(atts[i])
                     e == result'[k + i]
                 IN /\ e[S_type] = Split(rec[S_content_type], "/")[1]
                    /\ S_src \in DOMAIN e /\ S_url \in DOMAIN e
                    /\ (S_src \notin DOMAIN rec => e[S_src] = rec[S_url] /\ e[S_url] = rec[S_url])
                    /\ (S_url \notin DOMAIN rec => e[S_src] = rec[S_src] /\ e[S_url] = rec[S_src])
            /\ "attachments" \notin DOMAIN payload'
            /\ "mentions" \notin DOMAIN payload']_vars

\* C10: the scan loop terminates: an iteration that finds a match strictly
\* shrinks the remaining template, an iteration that finds none leaves the
\* loop, and the loop runs at most length(template) iterations.
C10_ScanTerminates ==
    /\ [][pc = "scan" =>
            IF Matched THEN Len(template') < Len(template) /\ iters' = iters + 1
            ELSE pc' = "attach"]_vars
    /\ [](iters <= Len(payload["content"]))

\* C10 witness: the loop was left after two iterations, one that matched
\* and one that found no match in the remainder.
C10_Witness ==
    /\ pc = "attach"
    /\ iters = 2
    /\ Len(template) > 0
    /\ Len(result) = 2
    /\ Len(payload["content"]) > Len(template) + 2

(***************************************************************************)
(* Properties of Message.format (specification SpecFormat).                *)
(***************************************************************************)
\* The type of an input item as the claims read it: a bare string is a Text.
ItemType(item) == IF item.kind = "string" THEN S_text ELSE Get(item.value, S_type)

InputTypes == [i \in 1..Len(Normalize(message)) |-> ItemType(Normalize(message)[i])]

HasType(T) == \E i \in 1..Len(InputTypes) : InputTypes[i] \in T

ReplyIds ==
    LET items == SelectSeq(Normalize(message), LAMBDA x : ItemType(x) = S_reply)
    IN [i \in 1..Len(items) |-> items[i].value[S_message_id]]

ButtonData ==
    LET items == SelectSeq(Normalize(message), LAMBDA x : ItemType(x) = S_button)
    IN [i \in 1..Len(items) |-> items[i].value[S_data]]

\* C1: when the input holds a Reply, msg_id of both payloads is the
\* message_id of the last Reply, whatever precedes or follows it.
C1_LastReplyWins ==
    (pcF = "done" /\ Len(ReplyIds) > 0)
    => /\ messages.msg_id = Last(ReplyIds)
       /\ files.msg_id = Last(ReplyIds)

\* C5: hasMessages is true exactly when the input holds a Text (or bare
\* string), Face or Markdown; hasFiles exactly when it holds an Image, Audio
\* or Video.
C5_Flags ==
    pcF = "done"
    => /\ hasMessages = HasType({S_text, S_face, S_markdown})
       /\ hasFiles = HasType({S_image, S_audio, S_video})

\* C5 witness: a bare string next to elements that set no flag.
C5_Witness ==
    /\ pcF = "done"
    /\ hasMessages /\ ~hasFiles
    /\ Len(Normalize(message)) = 3
    /\ \E i \in 1..3 : Normalize(message)[i].kind = "string"
    /\ HasType({S_reply}) /\ HasType({S_at, S_link, S_button})

\* C6 as stated: the two payloads carry the same timestamp.
C6_SameTimestamp == pcF = "done" => messages.timestamp = files.timestamp

\* C6 amended: each timestamp is its own reading of the clock to the nearest
\* second, the file payload's taken after the transcript's: it is never the
\* smaller one and neither lies more than half a second from the clock's
\* range during the call.
C6_TwoReadings ==
    pcF = "done"
    => /\ messages.timestamp <= files.timestamp
       /\ messages.timestamp * 1000 + 500 > MinOf(ClockStarts)
       /\ files.timestamp * 1000 - 500 <= now

\* C6 witness: the clock crossed a half second between the two readings.
C6_Witness == pcF = "done" /\ files.timestamp = messages.timestamp + 1

\* C7 as stated: both msg_seq lie in [1, 1000000] and 1000000 itself is a
\* possible draw.
C7_InclusiveRange ==
    pcF = "done"
    => /\ messages.msg_seq \in SeqMin..SeqMax
       /\ files.msg_seq \in SeqMin..SeqMax
       /\ \E x \in RawSamples : randomInt(x, SeqMin, SeqMax) = SeqMax

\* C7 amended: both msg_seq lie in [1, 999999]; 1000000 is never drawn.
C7_ExclusiveRange ==
    pcF = "done"
    => /\ messages.msg_seq \in SeqMin..(SeqMax - 1)
       /\ files.msg_seq \in SeqMin..(SeqMax - 1)

\* C7 witness: the two draws differ and sit on the two ends of the range.
C7_Witness ==
    pcF = "done" /\ messages.msg_seq = SeqMax - 1 /\ files.msg_seq = SeqMin

\* C8: b >= 1 buttons give ceil(b/4) rows, all full but possibly the last,
\* none empty, holding the buttons' data in input order; no button, no
\* keyboard; the file payload never has one.
C8_KeyboardRows ==
    pcF = "done"
    => LET b == Len(ButtonData)
       IN /\ "keyboard" \notin DOMAIN files
          /\ IF b = 0 THEN "keyboard" \notin DOMAIN messages
             ELSE /\ "keyboard" \in DOMAIN messages
                  /\ LET rows == messages.keyboard.content.rows
                     IN /\ Len(rows) = (b + 3) \div 4
                        /\ \A i \in 1..(Len(rows) - 1) : Len(rows[i].buttons) = 4
                        /\ Len(Last(rows).buttons) \in 1..4
                        /\ Flatten([i \in 1..Len(rows) |-> rows[i].buttons]) = ButtonData

\* C8 witness: five buttons with another element among them give rows of
\* sizes 4 and 1.
C8_Witness ==
    /\ pcF = "done"
    /\ Len(ButtonData) = 5
    /\ Len(Normalize(message)) = 6
    /\ ItemType(Normalize(message)[3]) = S_text
    /\ "keyboard" \in DOMAIN messages
    /\ Len(messages.keyboard.content.rows) = 2
    /\ Len(messages.keyboard.content.rows[2].buttons) = 1

====
